---- MODULE Spec2Model ----
(***************************************************************************)
(* Structural-safety pipeline of rocket_sim: thin-wall stress model        *)
(* (system_model/burst_calculator.py), failure tracker                     *)
(* (system_model/ode_solver.py), thick-wall comparison                     *)
(* (fem/thick_wall_solver.py), stress concentrations                       *)
(* (fem/stress_concentrations.py), the orchestrator                        *)
(* (integration/full_simulation.py) and the material catalog               *)
(* (system_model/materials.py).                                            *)
(*                                                                         *)
(* Numbers.  Lengths are integers in mm, pressures and strengths are       *)
(* rationals in MPa.  A rational is a record [n, d] in lowest terms with   *)
(* d > 0.  A square root is never evaluated: a non-negative quantity that  *)
(* the code obtains with np.sqrt is carried as its square ([sq |-> r]),    *)
(* and a safety factor as [inf, sq].  Stress-concentration factors are     *)
(* rationals; the one irrational factor (diameter transition) is computed  *)
(* in fixed point with three decimals.                                     *)
(*                                                                         *)
(* A Python call is an outcome record [raised, warned, value]: raised      *)
(* when the call ends with an exception, warned when warnings.warn was     *)
(* called on the way.                                                      *)
(***************************************************************************)
EXTENDS Integers, Sequences, FiniteSets, TLC

\* ---------------------------------------------------------------- bounds
MaxP == 2
MaxT == 3
EndTime == 6
MaxChanges == 3
MaxR == 4
MaxPoints == 3

\* ------------------------------------------------------------- rationals
Abs(x) == IF x < 0 THEN -x ELSE x

RECURSIVE GCD(_, _)
GCD(a, b) == IF b = 0 THEN a ELSE GCD(b, a % b)

Rat(n, d) ==
    LET g == GCD(Abs(n), Abs(d))
        s == IF d < 0 THEN -1 ELSE 1
    IN [n |-> s * (n \div g), d |-> s * (d \div g)]

RInt(n) == [n |-> n, d |-> 1]
Zero == RInt(0)
One == RInt(1)
LCM(a, b) == (a \div GCD(a, b)) * b
RAdd(a, b) ==
    LET l == LCM(a.d, b.d)
    IN Rat(a.n * (l \div a.d) + b.n * (l \div b.d), l)
RNeg(a) == [n |-> -a.n, d |-> a.d]
RSub(a, b) == RAdd(a, RNeg(b))
RMul(a, b) ==
    LET x == Rat(a.n, b.d)
        y == Rat(b.n, a.d)
    IN [n |-> x.n * y.n, d |-> x.d * y.d]
RDiv(a, b) == RMul(a, Rat(b.d, b.n))
RSq(a) == RMul(a, a)
\* a < b, by comparing the integer parts and then the reciprocals of the
\* fractional parts (no product is formed, so none can overflow)
RECURSIVE FracLess(_, _, _, _)
FracLess(an, ad, bn, bd) ==
    LET qa == an \div ad
        qb == bn \div bd
        ra == an % ad
        rb == bn % bd
    IN IF qa # qb THEN qa < qb
       ELSE IF rb = 0 THEN FALSE
       ELSE IF ra = 0 THEN TRUE
       ELSE FracLess(bd, rb, ad, ra)
RLess(a, b) == FracLess(a.n, a.d, b.n, b.d)
RMax(a, b) == IF RLess(a, b) THEN b ELSE a

\* Extended non-negative values carried as squares: [inf, sq].
Inf == [inf |-> TRUE, sq |-> Zero]
Fin(sq) == [inf |-> FALSE, sq |-> sq]
SFLess(a, b) == ~a.inf /\ (b.inf \/ RLess(a.sq, b.sq))
SFBelowOne(a) == ~a.inf /\ RLess(a.sq, One)

\* --------------------------------------------------------- call outcomes
Raised == [raised |-> TRUE, warned |-> FALSE, value |-> "ValueError"]
Returned(v, w) == [raised |-> FALSE, warned |-> w, value |-> v]
\* a ValueError whose message lists the accepted names
RaisedListing(names) ==
    [raised |-> TRUE, warned |-> FALSE, value |-> "ValueError",
     available |-> names]

\* str.lower() on the strings the model passes as criterion, cap type or
\* material name
Lower(s) ==
    CASE s = "Yield" -> "yield"
      [] s = "ULTIMATE" -> "ultimate"
      [] s = "Flat" -> "flat"
      [] s = "PET" -> "pet"
      [] s = "HDPE" -> "hdpe"
      [] OTHER -> s

\* name.strip().replace(" ", "_").replace("-", "_") on the names the model
\* looks up
Normalized(name) ==
    CASE name = " HDPE " -> "HDPE"
      [] OTHER -> name

\* ------------------------------------------------------------- materials
MATERIALS ==
    [PET |-> [name |-> "PET", yield_strength |-> 55, tensile_strength |-> 70,
              elastic_modulus |-> 2800],
     HDPE |-> [name |-> "HDPE", yield_strength |-> 26, tensile_strength |-> 37,
               elastic_modulus |-> 1100]]

\* ------------------------------------------------ thin-wall stress model
\* length is optional (None) and read by the volume bookkeeping only;
\* diameters and thicknesses are in mm, lengths in dm
VesselGeometry(D, t) ==
    [inner_diameter |-> D, wall_thickness |-> t, length |-> <<>>]

\* variant: the limit ratio itself is rejected (>= for >)
validate_thin_wall_inclusive(geometry) ==
    IF 10 * geometry.wall_thickness >= geometry.inner_diameter
    THEN Raised
    ELSE Returned("None", 20 * geometry.wall_thickness > geometry.inner_diameter)

validate_thin_wall_assumption(geometry) ==
    IF 10 * geometry.wall_thickness > geometry.inner_diameter
    THEN Raised
    ELSE Returned("None", 20 * geometry.wall_thickness > geometry.inner_diameter)

calculate_hoop_stress(pressure, geometry) ==
    LET v == validate_thin_wall_assumption(geometry)
    IN IF v.raised THEN Raised
       ELSE Returned(RMul(pressure, Rat(geometry.inner_diameter,
                                         2 * geometry.wall_thickness)), v.warned)

\* variant: the hoop denominator 2 t in the axial formula
calculate_axial_stress_2t(pressure, geometry) ==
    LET v == validate_thin_wall_assumption(geometry)
    IN IF v.raised THEN Raised
       ELSE Returned(RMul(pressure, Rat(geometry.inner_diameter,
                                         2 * geometry.wall_thickness)), v.warned)

calculate_axial_stress(pressure, geometry) ==
    LET v == validate_thin_wall_assumption(geometry)
    IN IF v.raised THEN Raised
       ELSE Returned(RMul(pressure, Rat(geometry.inner_diameter,
                                         4 * geometry.wall_thickness)), v.warned)

\* variant: the sum of the squared differences is not halved
von_mises_stress_not_halved(hoop_stress, axial_stress, radial_stress) ==
    [sq |-> RAdd(RAdd(RSq(RSub(hoop_stress, axial_stress)),
                      RSq(RSub(axial_stress, radial_stress))),
                 RSq(RSub(radial_stress, hoop_stress)))]

\* sqrt(((s1-s2)^2 + (s2-s3)^2 + (s3-s1)^2) / 2), carried as its square
calculate_von_mises_stress(hoop_stress, axial_stress, radial_stress) ==
    [sq |-> RDiv(RAdd(RAdd(RSq(RSub(hoop_stress, axial_stress)),
                           RSq(RSub(axial_stress, radial_stress))),
                      RSq(RSub(radial_stress, hoop_stress))),
                 RInt(2))]

calculate_stress_state(pressure, geometry) ==
    LET h == calculate_hoop_stress(pressure, geometry)
        a == calculate_axial_stress(pressure, geometry)
    IN IF h.raised \/ a.raised THEN Raised
       ELSE Returned([hoop_stress |-> h.value,
                      axial_stress |-> a.value,
                      radial_stress |-> Zero,
                      von_mises_stress |->
                          calculate_von_mises_stress(h.value, a.value, Zero)],
                     h.warned \/ a.warned)

calculate_burst_pressure(geometry, material, use_yield, safety_factor) ==
    LET v == validate_thin_wall_assumption(geometry)
        sigma_allow == IF use_yield THEN material.yield_strength
                       ELSE material.tensile_strength
        P_burst == Rat(2 * sigma_allow * geometry.wall_thickness,
                       geometry.inner_diameter)
    IN IF v.raised THEN Raised
       ELSE Returned(RDiv(P_burst, RInt(safety_factor)), v.warned)

calculate_safety_factor(pressure, geometry, material, criterion) ==
    LET st == calculate_stress_state(pressure, geometry)
        sigma_actual == st.value.von_mises_stress
        sigma_allow == IF Lower(criterion) = "yield"
                       THEN material.yield_strength
                       ELSE material.tensile_strength
    IN IF st.raised THEN Raised
       ELSE IF Lower(criterion) \notin {"yield", "ultimate"} THEN Raised
       ELSE IF RLess(Zero, sigma_actual.sq)
            THEN Returned(Fin(RDiv(RInt(sigma_allow * sigma_allow),
                                   sigma_actual.sq)), st.warned)
            ELSE Returned(Inf, st.warned)

check_failure(pressure, geometry, material, criterion) ==
    LET SF == calculate_safety_factor(pressure, geometry, material, criterion)
    IN IF SF.raised THEN Raised
       ELSE Returned([failed |-> SFBelowOne(SF.value), SF |-> SF.value],
                     SF.warned)

predict_failure_pressure(geometry, material, criterion) ==
    calculate_burst_pressure(geometry, material, Lower(criterion) = "yield", 1)

\* ------------------------------------------------ optional arguments
None == <<>>
Some(v) == <<v>>

\* floor(sqrt(x)) for a natural x, by bisection
RECURSIVE IsqrtLoop(_, _, _)
IsqrtLoop(x, lo, hi) ==
    IF lo >= hi THEN lo
    ELSE LET mid == (lo + hi + 1) \div 2
         IN IF mid * mid <= x THEN IsqrtLoop(x, mid, hi)
            ELSE IsqrtLoop(x, lo, mid - 1)
Isqrt(x) == IsqrtLoop(x, 0, 40000)

\* np.sqrt of a positive rational, to three decimals
SqrtMilli(r) == Isqrt((r.n * 1000000) \div r.d)

\* np.clip
Clip(x, lo, hi) == IF RLess(x, lo) THEN lo ELSE IF RLess(hi, x) THEN hi ELSE x

\* --------------------------------------------- stress concentrations
cap_factors ==
    [hemispherical |-> Rat(10, 10),
     elliptical |-> Rat(15, 10),
     torispherical |-> Rat(18, 10),
     conical |-> Rat(15, 10),
     flat |-> Rat(25, 10)]

\* variant: a cap type that is not in the table gets the baseline factor
end_cap_factor_or_baseline(geometry, cap_type) ==
    LET cap_type_lower == Lower(cap_type)
    IN IF cap_type_lower \notin DOMAIN cap_factors
       THEN Returned(One, FALSE)
       ELSE Returned(cap_factors[cap_type_lower], cap_type_lower = "flat")

calculate_end_cap_stress_factor(geometry, cap_type) ==
    LET cap_type_lower == Lower(cap_type)
    IN IF cap_type_lower \notin DOMAIN cap_factors
       THEN RaisedListing(DOMAIN cap_factors)
       ELSE Returned(cap_factors[cap_type_lower], cap_type_lower = "flat")

\* variant: the default root radius is four times the depth (a blunt root)
thread_stress_factor_blunt_default(geometry, thread_depth, thread_radius) ==
    LET h == IF thread_depth = None THEN Rat(geometry.wall_thickness, 2)
             ELSE thread_depth[1]
        r == IF thread_radius = None THEN RMul(h, RInt(4))
             ELSE thread_radius[1]
        K_t == IF RLess(Zero, r)
               THEN Rat(1000 + 2 * SqrtMilli(RDiv(h, r)), 1000)
               ELSE RInt(4)
    IN Clip(K_t, RInt(2), Rat(45, 10))

calculate_thread_stress_factor(geometry, thread_depth, thread_radius) ==
    LET h == IF thread_depth = None THEN Rat(geometry.wall_thickness, 2)
             ELSE thread_depth[1]
        r == IF thread_radius = None THEN RDiv(h, RInt(4))
             ELSE thread_radius[1]
        K_t == IF RLess(Zero, r)
               THEN Rat(1000 + 2 * SqrtMilli(RDiv(h, r)), 1000)
               ELSE RInt(4)
    IN Clip(K_t, RInt(2), Rat(45, 10))

calculate_transition_radius_factor(major_diameter, minor_diameter, fillet_radius) ==
    LET d_ratio == Rat(minor_diameter, major_diameter)
        r_ratio == Rat(fillet_radius, minor_diameter)
        K_t == IF RLess(Zero, r_ratio)
               THEN Rat(1000 + (500 * 1000) \div SqrtMilli(r_ratio), 1000)
               ELSE RInt(3)
        K_adj == RMul(K_t, RAdd(One, RSub(One, d_ratio)))
    IN Clip(K_adj, One, Rat(35, 10))

\* variant: the last key of the list whose factor is maximal
ArgMaxKeyLast(K) ==
    LET b1 == IF RLess(K.thread, K.cap) THEN "cap" ELSE "thread"
    IN IF RLess(K.transition, K[b1]) THEN b1 ELSE "transition"

\* max(['cap', 'thread', 'transition'], key=...): the first key of the list
\* whose factor is maximal
ArgMaxKey(K) ==
    LET b1 == IF RLess(K.cap, K.thread) THEN "thread" ELSE "cap"
    IN IF RLess(K[b1], K.transition) THEN "transition" ELSE b1

LocationLabel == [cap |-> "End cap", thread |-> "Thread root",
                  transition |-> "Neck transition"]

\* variant: the factors multiply
max_K_product(K_cap, K_thread, K_transition) ==
    RMul(RMul(K_cap, K_thread), K_transition)

\* max_K = max(K_cap, K_thread, K_transition)
max_K(K_cap, K_thread, K_transition) ==
    RMax(RMax(K_cap, K_thread), K_transition)

calculate_maximum_stress(pressure, geometry, material, cap_type, include_thread, include_transition) ==
    LET stress_state == calculate_stress_state(pressure, geometry)
        sigma_nominal == stress_state.value.hoop_stress
        cap == calculate_end_cap_stress_factor(geometry, cap_type)
        K_cap == cap.value
        K_thread == IF include_thread
                    THEN calculate_thread_stress_factor(geometry, None, None)
                    ELSE One
        K_transition == IF include_transition
                        THEN calculate_transition_radius_factor(
                                 geometry.inner_diameter, 28, 5)
                        ELSE One
        K == [cap |-> K_cap, thread |-> K_thread, transition |-> K_transition]
        K_total == max_K(K_cap, K_thread, K_transition)
    IN IF stress_state.raised THEN Raised
       ELSE IF cap.raised THEN cap
       ELSE Returned([sigma_nominal |-> sigma_nominal,
                      K_cap |-> K_cap,
                      K_thread |-> IF include_thread THEN Some(K_thread) ELSE None,
                      K_transition |-> IF include_transition
                                       THEN Some(K_transition) ELSE None,
                      K_total |-> K_total,
                      sigma_max |-> RMul(K_total, sigma_nominal),
                      location |-> LocationLabel[ArgMaxKey(K)]],
                     stress_state.warned \/ cap.warned)

estimate_failure_location(pressure, geometry, cap_type) ==
    LET cap == calculate_end_cap_stress_factor(geometry, cap_type)
        K_cap == cap.value
        K_thread == calculate_thread_stress_factor(geometry, None, None)
        K_body == One
        K_max == RMax(RMax(K_cap, K_thread), K_body)
    IN IF cap.raised THEN cap
       ELSE IF K_max = K_thread
            THEN Returned("Thread root (thread stress concentration)", cap.warned)
       ELSE IF K_max = K_cap /\ RLess(Rat(15, 10), K_cap)
            THEN Returned("End cap (stress concentration)", cap.warned)
       ELSE Returned("Cylindrical body (uniform stress)", cap.warned)

\* ------------------------------------------------- thick-wall solver
\* np.linspace(a, b, n)[k], 0-based
Linspace(a, b, n, k) ==
    IF n = 1 THEN a ELSE RAdd(a, RMul(RSub(b, a), Rat(k, n - 1)))

\* Lame constants: sigma_r = A - B/r^2, sigma_theta = A + B/r^2
LameA(r_i, r_o, P_i, P_o) ==
    RDiv(RSub(RMul(P_i, RSq(r_i)), RMul(P_o, RSq(r_o))),
         RSub(RSq(r_o), RSq(r_i)))

\* variant: B computed as if the vessel had no external pressure
LameB_internal_only(r_i, r_o, P_i, P_o) ==
    RDiv(RMul(RMul(P_i, RSq(r_i)), RSq(r_o)), RSub(RSq(r_o), RSq(r_i)))

LameB(r_i, r_o, P_i, P_o) ==
    RDiv(RMul(RMul(RSub(P_i, P_o), RSq(r_i)), RSq(r_o)),
         RSub(RSq(r_o), RSq(r_i)))

solve_lame_equations(inner_radius, outer_radius, internal_pressure, external_pressure, n_points) ==
    LET r_i == inner_radius
        r_o == outer_radius
        P_i == internal_pressure
        P_o == external_pressure
        A == LameA(r_i, r_o, P_i, P_o)
        k == RSub(RSq(r_o), RSq(r_i))
        B == LameB(r_i, r_o, P_i, P_o)
        r == [j \in 1..n_points |-> Linspace(r_i, r_o, n_points, j - 1)]
        sigma_r == [j \in 1..n_points |-> RSub(A, RDiv(B, RSq(r[j])))]
        sigma_theta == [j \in 1..n_points |-> RAdd(A, RDiv(B, RSq(r[j])))]
        sigma_z == RDiv(RMul(P_i, RSq(r_i)), k)
    IN [r |-> r,
        sigma_r |-> sigma_r,
        sigma_theta |-> sigma_theta,
        sigma_z |-> [j \in 1..n_points |-> sigma_z],
        sigma_vm |-> [j \in 1..n_points |->
                         calculate_von_mises_stress(sigma_r[j], sigma_theta[j],
                                                    sigma_z)]]

\* np.max of a non-empty sequence of rationals
RECURSIVE SeqMax(_)
SeqMax(s) ==
    IF Len(s) = 1 THEN s[1] ELSE RMax(s[1], SeqMax(Tail(s)))

\* The comparison reads only the maximum and the first sample of the hoop
\* profile; A + B/r^2 is monotone in r, so the two end samples of the
\* linspace (n_points = 2) carry both.
compare_thick_vs_thin_wall(geometry, pressure, material) ==
    LET r_i == Rat(geometry.inner_diameter, 2)
        t == RInt(geometry.wall_thickness)
        r_o == RAdd(r_i, t)
        thickness_ratio == Rat(geometry.wall_thickness, geometry.inner_diameter)
        thin_wall_valid == RLess(thickness_ratio, Rat(1, 10))
        sigma_thin == calculate_hoop_stress(pressure, geometry)
        result == solve_lame_equations(r_i, r_o, pressure, Zero, 2)
    IN IF sigma_thin.raised THEN Raised
       ELSE Returned([thickness_ratio |-> thickness_ratio,
                      thin_wall_valid |-> thin_wall_valid,
                      hoop_stress_thin |-> sigma_thin.value,
                      hoop_stress_thick_max |-> SeqMax(result.sigma_theta),
                      hoop_stress_thick_inner |-> result.sigma_theta[1]],
                     sigma_thin.warned)

\* ====================================================== state machine
VARIABLES
    pc,            \* position of the run: "start", "prepared", "integrating",
                   \* "tracker_done", "done", "error"; "pure", "returned"
                   \* for a direct call of a library function
    geometry,      \* VesselGeometry of the run
    material,      \* MaterialProperties of the run
    config,        \* end_time, max_step, failure_criterion, include_deformation
    P_interp,      \* pressure interpolant, tick -> MPa
    T_interp,      \* temperature interpolant, tick -> K
    sol,           \* solve_ivp: status, t, t_eval_i, ts, t_events
    system_state,  \* SystemState returned by simulate_system_dynamics
    result,        \* FullSimulationResult returned by run_complete_simulation
    call,          \* last call of a thin-wall / FEM function (PureSpec)
    combustion,    \* CombustionResult handed to simulate_system_dynamics:
                   \* time, pressure, temperature
    plan,          \* step the integrator takes from each time, when the
                   \* same integration is run twice
    first,         \* the earlier of two runs that are compared
    catalog,       \* the module-level MATERIALS dictionary
    held,          \* names of the catalog records a caller holds
    window,        \* MainWindow: simulation_thread, current_result, the
                   \* run button, the progress bar, open message boxes
    threads,       \* the SimulationThread objects created so far
    events         \* signals queued for the slots of the main thread

aside == <<combustion, plan, first, catalog, held>>

gui == <<window, threads, events>>

vars == <<pc, geometry, material, config, P_interp, T_interp, sol,
          system_state, result, call, combustion, plan, first, catalog, held,
          window, threads, events>>

Ticks == 0..EndTime

\* ----------------------------------------------------------- inputs
Geometries == {VesselGeometry(D, t) : D \in {20, 40, 80}, t \in 1..MaxT}
Materials == {MATERIALS[k] : k \in DOMAIN MATERIALS}
\* vessels of the complete runs: thin, thin and wide, marginal, too thick
RunGeometries == {VesselGeometry(40, 1), VesselGeometry(80, 1),
                  VesselGeometry(40, MaxT), VesselGeometry(20, MaxT)}
RunMaterials == {MATERIALS.HDPE}
Criteria == {"yield", "ultimate"}
CapTypes == {"hemispherical", "elliptical", "torispherical", "conical",
             "flat", "Flat", "dome"}
RunCapTypes == {"hemispherical", "flat", "Flat", "dome"}

\* np.linspace(0, end_time, int(end_time / max_step)) falls on whole ticks
TEvalOnTicks(end_time, max_step) ==
    LET n == end_time \div max_step
    IN n <= 2 \/ end_time % (n - 1) = 0

MaxSteps == {m \in 1..(EndTime + 1) :
                /\ TEvalOnTicks(EndTime, m)
                /\ (m <= 3 \/ m >= EndTime)}

\* pressure interpolants: at most MaxChanges changes of level over the run
PressureProfiles ==
    {f \in [Ticks -> 0..MaxP] :
        Cardinality({k \in 1..EndTime : f[k - 1] # f[k]}) <= MaxChanges}
\* pressurisation of a closed vessel by one combustion: a single rise
RisingProfiles ==
    {[k \in Ticks |-> IF k < k0 THEN p0 ELSE p1] :
        k0 \in 1..EndTime, p0 \in 0..MaxP, p1 \in 0..MaxP} \cap
    {f \in [Ticks -> 0..MaxP] : f[0] <= f[EndTime]}
TemperatureProfile == [k \in Ticks |-> 300 + 400 * k]

NoSol == [status |-> "none", t |-> 0, t_eval_i |-> 0, ts |-> <<>>,
          t_events |-> <<>>, g |-> <<>>]
NoCall == [op |-> "none"]
NoState == [set |-> FALSE]
NoInterp == <<>>
NoPlan == <<>>
NoSeries == [time |-> <<>>, pressure |-> <<>>, temperature |-> <<>>]

\* MainWindow.__init__, main_window.py lines 33-34, and the widgets as
\* created: the run button enabled, the progress bar at 0, no message box
NewWindow ==
    [simulation_thread |-> <<>>, current_result |-> <<>>,
     run_button |-> TRUE, progress_bar |-> 0, dialogs |-> 0]

GuiIdle ==
    /\ window = NewWindow
    /\ threads = <<>>
    /\ events = <<>>

\* the series of a combustion run that reports at every tick
SeriesOf(f) ==
    [time |-> [i \in 1..(EndTime + 1) |-> i - 1],
     pressure |-> [i \in 1..(EndTime + 1) |-> f[i - 1]],
     temperature |-> [i \in 1..(EndTime + 1) |-> TemperatureProfile[i - 1]],
     success |-> TRUE]

\* ------------------------------------------------ interpolation
\* interp1d(x, y, kind='cubic', fill_value='extrapolate', bounds_error=False)
\* with assume_sorted left False: the samples are sorted by x, a repeated x
\* or fewer than four samples is a ValueError.  No bound is checked and no
\* warning is issued when the interpolant is evaluated outside [x[0], x[-1]].
\* The series of the model have their sorted times on the ticks 0..n-1, so
\* the spline is evaluated at its knots, and beyond the last knot only for
\* n = 4, where the not-a-knot spline is the cubic through the four samples
\* (Newton's forward differences).
RankOf(x, i) == 1 + Cardinality({j \in 1..Len(x) : x[j] < x[i]})

SortedBy(x, y) ==
    [r \in 1..Len(x) |-> y[CHOOSE i \in 1..Len(x) : RankOf(x, i) = r]]

CubicThrough(ys, k) ==
    LET d1 == ys[2] - ys[1]
        d2 == ys[3] - 2 * ys[2] + ys[1]
        d3 == ys[4] - 3 * ys[3] + 3 * ys[2] - ys[1]
    IN ys[1] + k * d1 + ((k * (k - 1)) \div 2) * d2
             + ((k * (k - 1) * (k - 2)) \div 6) * d3

interp1d(x, y) ==
    IF Len(x) < 4 \/ \E i, j \in 1..Len(x) : i # j /\ x[i] = x[j]
    THEN Raised
    ELSE LET ys == SortedBy(x, y)
         IN Returned([k \in Ticks |->
                         IF k < Len(x) THEN ys[k + 1]
                         ELSE CubicThrough(ys, k)], FALSE)

\* ------------------------------------------------ failure tracker
\* t_eval = np.linspace(0, end_time, int(end_time / max_step)), 1-based
t_eval_len == config.end_time \div config.max_step
t_eval(i) ==
    IF t_eval_len = 1 THEN 0
    ELSE ((i - 1) * config.end_time) \div (t_eval_len - 1)

\* failure_event(t, y): sign of SF - 1.0
SignOfMinusOne(sf) ==
    IF sf.inf \/ RLess(One, sf.sq) THEN 1
    ELSE IF sf.sq = One THEN 0 ELSE -1

failure_event(t) ==
    LET SF == calculate_safety_factor(RInt(P_interp[t]), geometry, material,
                                      config.failure_criterion)
    IN IF SF.raised THEN Raised
       ELSE Returned(SignOfMinusOne(SF.value), SF.warned)

\* find_active_events with direction = -1
EventActive(g, g_new) == g >= 0 /\ g_new <= 0

\* The event function along the run.  The ODE is dy/dt = 0 and the event
\* reads only t, so its value at a tick is the same at every evaluation;
\* sol.g keeps the values the integrator sees.
EventValues == [k \in Ticks |-> failure_event(k).value]

\* Roots the bracketing solver may return in (t_old, t]: a tick on the failed
\* side next to a zero of the event function
Roots(t_old, t) ==
    {k \in (t_old + 1)..t :
        /\ sol.g[k] <= 0
        /\ \/ sol.g[k - 1] >= 0
           \/ (k < t /\ sol.g[k + 1] >= 0)}

\* t_eval[t_eval_i : searchsorted(t_eval, t, side='right')]
RECURSIVE TEvalChunk(_, _)
TEvalChunk(i, t) ==
    IF i < t_eval_len /\ t_eval(i + 1) <= t
    THEN <<t_eval(i + 1)>> \o TEvalChunk(i + 1, t)
    ELSE <<>>

InitInputs ==
    /\ geometry \in RunGeometries
    /\ material \in RunMaterials
    /\ config \in [end_time : {EndTime}, max_step : MaxSteps,
                   failure_criterion : Criteria,
                   include_deformation : {FALSE}]
    /\ P_interp = NoInterp
    /\ T_interp = NoInterp
    /\ pc = "start"
    /\ sol = NoSol
    /\ system_state = NoState
    /\ result = NoState
    /\ call = NoCall
    /\ plan = NoPlan
    /\ first = NoState
    /\ catalog = MATERIALS
    /\ held = {}
    /\ GuiIdle

\* simulate_system_dynamics entry, lines 124-152: the interpolants
Prepare ==
    /\ pc = "start"
    /\ \E P \in {interp1d(combustion.time, combustion.pressure)} :
       \E T \in {interp1d(combustion.time, combustion.temperature)} :
         IF P.raised \/ T.raised
         THEN /\ pc' = "error"
              /\ UNCHANGED <<P_interp, T_interp>>
         ELSE /\ pc' = "prepared"
              /\ P_interp' = P.value
              /\ T_interp' = T.value
    /\ UNCHANGED <<geometry, material, config, sol, system_state, result,
                   call, aside, gui>>

\* solve_ivp entry: the event function is evaluated at t0
Begin ==
    /\ pc = "prepared"
    /\ IF failure_event(0).raised
       THEN /\ pc' = "error"
            /\ sol' = sol
       ELSE /\ pc' = "integrating"
            /\ sol' = [status |-> "running", t |-> 0, t_eval_i |-> 0,
                       ts |-> <<>>, t_events |-> <<>>, g |-> EventValues]
    /\ UNCHANGED <<geometry, material, config, P_interp, T_interp,
                   system_state, result, call, aside, gui>>

\* The ODE is dy/dt = 0, so the step control reads nothing of the run but
\* max_step: two integrations with the same max_step take the same steps.
StepChoices(t) ==
    IF plan = NoPlan THEN 1..config.max_step ELSE {plan[t]}

\* one accepted step of the integrator, of h ticks at most max_step
SolverStep ==
    /\ pc = "integrating"
    /\ sol.status = "running"
    /\ \E h \in StepChoices(sol.t) :
         LET t_old == sol.t
             t_new == IF t_old + h > config.end_time THEN config.end_time
                      ELSE t_old + h
             active == EventActive(sol.g[t_old], sol.g[t_new])
         IN \E root \in (IF active THEN Roots(t_old, t_new) ELSE {t_new}) :
              LET chunk == TEvalChunk(sol.t_eval_i, root)
              IN sol' = [status |-> IF active THEN "terminated"
                                    ELSE IF t_new = config.end_time
                                         THEN "finished" ELSE "running",
                         t |-> root,
                         t_eval_i |-> sol.t_eval_i + Len(chunk),
                         ts |-> sol.ts \o chunk,
                         t_events |-> IF active THEN <<root>> ELSE <<>>,
                         g |-> sol.g]
    /\ UNCHANGED <<pc, geometry, material, config, P_interp, T_interp,
                   system_state, result, call, aside, gui>>

\* the integrator reports that it could not complete (status -1)
SolverFail ==
    /\ pc = "integrating"
    /\ sol.status = "running"
    /\ sol' = [sol EXCEPT !.status = "failed"]
    /\ UNCHANGED <<pc, geometry, material, config, P_interp, T_interp,
                   system_state, result, call, aside, gui>>

\* V0 = inner_diameter**2 * pi / 4 * (length or 0.3), in units of pi/4
V0 ==
    RInt(geometry.inner_diameter * geometry.inner_diameter
         * (IF geometry.length = None THEN 3 ELSE geometry.length[1]))

\* variant: the pressure is corrected for the deformed volume (P V0 / V)
\* before the stresses are computed
SampleWithFeedback(t) ==
    LET P0 == RInt(P_interp[t])
        s0 == calculate_stress_state(P0, geometry).value
        dV0 == RAdd(RMul(RInt(2), RDiv(s0.hoop_stress,
                                       RInt(material.elastic_modulus))),
                    RDiv(s0.axial_stress, RInt(material.elastic_modulus)))
        V == IF config.include_deformation THEN RMul(V0, RAdd(One, dV0))
             ELSE V0
        P == RDiv(RMul(P0, V0), V)
        stress_state == calculate_stress_state(P, geometry).value
        SF == calculate_safety_factor(P, geometry, material,
                                      config.failure_criterion).value
    IN [time |-> t,
        pressure |-> P,
        temperature |-> T_interp[t],
        volume |-> V,
        hoop_stress |-> stress_state.hoop_stress,
        axial_stress |-> stress_state.axial_stress,
        von_mises_stress |-> stress_state.von_mises_stress,
        safety_factor |-> SF,
        strain_hoop |-> RDiv(stress_state.hoop_stress,
                             RInt(material.elastic_modulus))]

\* one retained sample of the series, ode_solver.py lines 218-247
Sample(t) ==
    LET P == RInt(P_interp[t])
        stress_state == calculate_stress_state(P, geometry).value
        SF == calculate_safety_factor(P, geometry, material,
                                      config.failure_criterion).value
        epsilon_hoop == RDiv(stress_state.hoop_stress,
                             RInt(material.elastic_modulus))
        epsilon_axial == RDiv(stress_state.axial_stress,
                              RInt(material.elastic_modulus))
        dV_V == RAdd(RMul(RInt(2), epsilon_hoop), epsilon_axial)
    IN [time |-> t,
        pressure |-> P,
        temperature |-> T_interp[t],
        volume |-> IF config.include_deformation
                   THEN RMul(V0, RAdd(One, dV_V)) ELSE V0,
        hoop_stress |-> stress_state.hoop_stress,
        axial_stress |-> stress_state.axial_stress,
        von_mises_stress |-> stress_state.von_mises_stress,
        safety_factor |-> SF,
        strain_hoop |-> epsilon_hoop]

\* simulate_system_dynamics after solve_ivp returned: lines 208-265
Collect ==
    /\ pc = "integrating"
    /\ sol.status # "running"
    /\ LET failure_detected == Len(sol.t_events) > 0
           time_array == IF failure_detected
                         THEN Append(sol.ts, sol.t_events[1])
                         ELSE sol.ts
       IN system_state' =
            [samples |-> [i \in 1..Len(time_array) |-> Sample(time_array[i])],
             failed |-> failure_detected,
             failure_time |-> IF failure_detected THEN Some(sol.t_events[1])
                              ELSE None,
             failure_mode |-> IF failure_detected THEN Some("Yield exceeded")
                              ELSE None,
             \* what warnings.warn reported during the call
             warned |->
                 (IF geometry.length = None THEN {"length"} ELSE {})
                 \cup (IF failure_event(0).warned THEN {"thin_wall"}
                       ELSE {})]
    /\ pc' = "tracker_done"
    /\ UNCHANGED <<geometry, material, config, P_interp, T_interp, sol,
                   result, call, aside, gui>>

\* ---------------------------------------------------- orchestrator
\* np.min of the safety_factor series
RECURSIVE MinSF(_)
MinSF(s) ==
    IF Len(s) = 1 THEN s[1]
    ELSE LET m == MinSF(Tail(s))
         IN IF SFLess(m, s[1]) THEN m ELSE s[1]

\* np.max of the von Mises profile (carried as squares)
RECURSIVE MaxSq(_)
MaxSq(s) ==
    IF Len(s) = 1 THEN s[1]
    ELSE LET m == MaxSq(Tail(s))
         IN IF RLess(s[1].sq, m.sq) THEN m ELSE s[1]

RECURSIVE MaxInt(_)
MaxInt(s) ==
    IF Len(s) = 1 THEN s[1]
    ELSE LET m == MaxInt(Tail(s)) IN IF s[1] < m THEN m ELSE s[1]

\* material.yield_strength / sigma_max; pressures of the model are never
\* negative, so the quotient is never negative and is carried as its square
\* variant: the ultimate strength in place of the yield strength
TensileOver(material_, sigma_max) ==
    IF sigma_max = Zero THEN Inf
    ELSE Fin(RSq(RDiv(RInt(material_.tensile_strength), sigma_max)))

YieldOver(material_, sigma_max) ==
    IF sigma_max = Zero THEN Inf
    ELSE Fin(RSq(RDiv(RInt(material_.yield_strength), sigma_max)))

\* overall verdict, full_simulation.py line 306
OverallFailed(system_failed, sf_conc) == system_failed \/ SFBelowOne(sf_conc)

\* variant: the first argument, whatever the second
PyMinFirst(a, b) == a

\* Python min(a, b)
PyMin(a, b) == IF SFLess(b, a) THEN b ELSE a

\* warning list, full_simulation.py lines 310-322
WarningsList(comparison, cap_type, include_threads, safety_margin) ==
    (IF RLess(Rat(5, 100), comparison.thickness_ratio)
        THEN <<"thick_wall">> ELSE <<>>)
    \o (IF cap_type = "flat" THEN <<"flat_cap">> ELSE <<>>)
    \o (IF include_threads THEN <<"threads">> ELSE <<>>)
    \o (IF SFLess(safety_margin, Fin(RSq(RInt(2))))
        THEN <<"low_margin">> ELSE <<>>)

\* run_complete_simulation after the system simulation returned:
\* full_simulation.py lines 221-355 (system_integrator.py line 140 reads the
\* peak of the series first).  Each local of the function is bound once, in
\* the order of the code, by a quantifier over a singleton.
OrchestrateWith(cap_type, include_threads, include_transition) ==
    /\ pc = "tracker_done"
    /\   IF Len(system_state.samples) = 0
         THEN \* np.max of an empty pressure series raises ValueError
              /\ pc' = "error"
              /\ result' = result
         ELSE
         \E samples \in {system_state.samples} :
         \E P_max \in {SeqMax([i \in 1..Len(samples) |->
                                    samples[i].pressure])} :
         \E r_i \in {Rat(geometry.inner_diameter, 2)} :
         \E r_o \in {RAdd(r_i, RInt(geometry.wall_thickness))} :
         \E lame_result \in {solve_lame_equations(r_i, r_o, P_max, Zero, 2)} :
         \E comparison \in {compare_thick_vs_thin_wall(geometry, P_max,
                                                       material)} :
         \E scr \in {calculate_maximum_stress(P_max, geometry, material,
                                              cap_type, include_threads,
                                              include_transition)} :
         \E failure_loc \in {estimate_failure_location(P_max, geometry,
                                                       cap_type)} :
           IF comparison.raised \/ scr.raised \/ failure_loc.raised
           THEN /\ pc' = "error"
                /\ result' = result
           ELSE
           \E sf_conc \in {YieldOver(material, scr.value.sigma_max)} :
           \E summary \in
               {[peak_pressure |-> P_max,
                 peak_temperature |->
                     MaxInt([i \in 1..Len(samples) |-> samples[i].temperature]),
                 min_safety_factor |->
                     MinSF([i \in 1..Len(samples) |->
                               samples[i].safety_factor]),
                 max_hoop_stress |-> SeqMax(lame_result.sigma_theta),
                 max_von_mises_stress |-> MaxSq(lame_result.sigma_vm),
                 stress_concentration_factor |-> scr.value.K_total,
                 max_stress_with_concentration |-> scr.value.sigma_max,
                 safety_factor_with_concentration |-> sf_conc]} :
           \E failed \in {OverallFailed(system_state.failed, sf_conc)} :
           \E safety_margin \in {PyMin(summary.min_safety_factor, sf_conc)} :
             /\ pc' = "done"
             /\ result' =
                  [cap_type |-> cap_type,
                   include_threads |-> include_threads,
                   include_transition |-> include_transition,
                   fem_analysis |->
                       [thick_vs_thin |-> comparison.value,
                        stress_concentrations |-> scr.value,
                        failure_location_predicted |-> failure_loc.value],
                   summary |-> summary,
                   warnings |-> WarningsList(comparison.value, cap_type,
                                             include_threads, safety_margin),
                   failed |-> failed,
                   failure_location |->
                       IF failed THEN Some(scr.value.location) ELSE None,
                   safety_margin |-> safety_margin]
    /\ UNCHANGED <<geometry, material, config, P_interp, T_interp, sol,
                   system_state, call, aside, gui>>

Orchestrate ==
    \E cap_type \in RunCapTypes, include_threads \in BOOLEAN,
       include_transition \in BOOLEAN :
        OrchestrateWith(cap_type, include_threads, include_transition)

\* ---------------------------------------------------- specifications
\* Complete run M2 -> M3 on a rising combustion pressure
Init ==
    /\ InitInputs
    /\ combustion \in {SeriesOf(f) : f \in RisingProfiles}

Next == Prepare \/ Begin \/ SolverStep \/ Collect \/ Orchestrate

Spec == Init /\ [][Next]_vars

\* simulate_system_dynamics alone, on every pressure profile
TrackerInit ==
    /\ InitInputs
    /\ combustion \in {SeriesOf(f) : f \in PressureProfiles}

TrackerNext == Prepare \/ Begin \/ SolverStep \/ Collect

TrackerSpec == TrackerInit /\ [][TrackerNext]_vars

\* Complete run in which the integrator may report failure
FaultNext ==
    Prepare \/ Begin \/ SolverStep \/ SolverFail \/ Collect \/ Orchestrate

FaultSpec == Init /\ [][FaultNext]_vars

\* Two calls of simulate_system_dynamics on one series that differ in the
\* vessel length and in include_deformation.  The integrator takes a first
\* step of its own choosing and steps of max_step after it.
Lengths == {None, Some(2), Some(3)}
StepPlans(max_step) ==
    {[t \in 0..(EndTime - 1) |-> IF t = 0 THEN h0 ELSE max_step] :
        h0 \in 1..max_step}

VolumeInit ==
    /\ \E g \in {VesselGeometry(80, 1), VesselGeometry(40, MaxT)},
          L \in Lengths : geometry = [g EXCEPT !.length = L]
    /\ material \in RunMaterials
    /\ config \in [end_time : {EndTime}, max_step : {m \in MaxSteps : m <= 3},
                   failure_criterion : {"yield"},
                   include_deformation : BOOLEAN]
    /\ combustion \in {SeriesOf(f) : f \in RisingProfiles}
    /\ plan \in StepPlans(config.max_step)
    /\ P_interp = NoInterp
    /\ T_interp = NoInterp
    /\ pc = "start"
    /\ sol = NoSol
    /\ system_state = NoState
    /\ result = NoState
    /\ call = NoCall
    /\ first = NoState
    /\ catalog = MATERIALS
    /\ held = {}
    /\ GuiIdle

\* the caller keeps the first result and calls again with another length
\* and another include_deformation
CallAgain ==
    /\ pc \in {"tracker_done", "error"}
    /\ ~first.set
    /\ first' = [set |-> TRUE, pc |-> pc, geometry |-> geometry,
                 config |-> config, system_state |-> system_state]
    /\ \E L \in Lengths, d \in BOOLEAN :
         /\ geometry' = [geometry EXCEPT !.length = L]
         /\ config' = [config EXCEPT !.include_deformation = d]
    /\ pc' = "start"
    /\ sol' = NoSol
    /\ system_state' = NoState
    /\ P_interp' = NoInterp
    /\ T_interp' = NoInterp
    /\ UNCHANGED <<material, result, call, combustion, plan, catalog, held,
                   gui>>

VolumeNext == Prepare \/ Begin \/ SolverStep \/ Collect \/ CallAgain

VolumeSpec == VolumeInit /\ [][VolumeNext]_vars

\* Two complete runs on one series: a flat cap with threads on a vessel, then
\* a hemispherical cap without threads on the same vessel with a thicker
\* wall.  The pressures are absolute and positive.
DesignLevels == {1, 2, 2 * MaxP}
DesignProfiles ==
    {f \in [Ticks -> DesignLevels] :
        Cardinality({k \in 1..EndTime : f[k - 1] # f[k]}) <= MaxChanges}

DesignInit ==
    /\ geometry = VesselGeometry(80, MaxT - 1)
    /\ material \in RunMaterials
    /\ config \in [end_time : {EndTime}, max_step : {m \in MaxSteps : m <= 2},
                   failure_criterion : {"yield"},
                   include_deformation : {FALSE}]
    /\ combustion \in {SeriesOf(f) : f \in DesignProfiles}
    /\ plan \in StepPlans(config.max_step)
    /\ P_interp = NoInterp
    /\ T_interp = NoInterp
    /\ pc = "start"
    /\ sol = NoSol
    /\ system_state = NoState
    /\ result = NoState
    /\ call = NoCall
    /\ first = NoState
    /\ catalog = MATERIALS
    /\ held = {}
    /\ GuiIdle

OrchestrateWeak ==
    /\ ~first.set
    /\ \E include_transition \in BOOLEAN :
         OrchestrateWith("flat", TRUE, include_transition)

\* the caller keeps the first result and runs the stronger design
RunStrong ==
    /\ pc \in {"done", "error"}
    /\ ~first.set
    /\ first' = [set |-> TRUE, pc |-> pc, geometry |-> geometry,
                 system_state |-> system_state, result |-> result]
    /\ \E t \in (geometry.wall_thickness + 1)..MaxT :
         geometry' = [geometry EXCEPT !.wall_thickness = t]
    /\ pc' = "start"
    /\ sol' = NoSol
    /\ system_state' = NoState
    /\ result' = NoState
    /\ P_interp' = NoInterp
    /\ T_interp' = NoInterp
    /\ UNCHANGED <<material, config, call, combustion, plan, catalog, held,
                   gui>>

OrchestrateStrong ==
    /\ first.set
    /\ \E include_transition \in BOOLEAN :
         OrchestrateWith("hemispherical", FALSE, include_transition)

DesignNext ==
    \/ Prepare \/ Begin \/ SolverStep \/ Collect
    \/ OrchestrateWeak \/ RunStrong \/ OrchestrateStrong

DesignSpec == DesignInit /\ [][DesignNext]_vars

\* simulate_system_dynamics on a series of four samples that ends before
\* end_time, given in order, out of order or with a repeated time
SampleTimes ==
    {<<0, 1, 2, 3>>, <<0, 2, 1, 3>>, <<3, 2, 1, 0>>, <<0, 1, 1, 2>>,
     <<0, 1, 2, 2>>}

InputSeries ==
    {[time |-> ts, pressure |-> ps,
      temperature |-> [i \in 1..4 |-> 300 + 400 * ts[i]]] :
        ts \in SampleTimes, ps \in [1..4 -> 0..MaxP]}

SeriesInit ==
    /\ geometry \in {VesselGeometry(80, 1), VesselGeometry(40, MaxT)}
    /\ material \in RunMaterials
    /\ config \in [end_time : {EndTime},
                   max_step : {m \in MaxSteps : m <= EndTime},
                   failure_criterion : {"yield"},
                   include_deformation : {FALSE}]
    /\ combustion \in InputSeries
    /\ P_interp = NoInterp
    /\ T_interp = NoInterp
    /\ pc = "start"
    /\ sol = NoSol
    /\ system_state = NoState
    /\ result = NoState
    /\ call = NoCall
    /\ plan = NoPlan
    /\ first = NoState
    /\ catalog = MATERIALS
    /\ held = {}
    /\ GuiIdle

SeriesSpec == SeriesInit /\ [][TrackerNext]_vars

\* ------------------------------------------------ material catalog
\* get_material, materials.py lines 100-136, on the current contents of the
\* MATERIALS dictionary.  The value returned is the dictionary's own record.
get_material(name) ==
    LET normalized == Normalized(name)
        matches == {key \in DOMAIN catalog : Lower(key) = Lower(normalized)}
    IN IF normalized \in DOMAIN catalog
       THEN Returned(catalog[normalized], FALSE)
       ELSE IF matches # {}
       THEN Returned(catalog[CHOOSE key \in matches : TRUE], FALSE)
       ELSE RaisedListing(DOMAIN catalog)

\* the key of the record a lookup returns
KeyOf(name) ==
    CHOOSE key \in DOMAIN catalog : Lower(key) = Lower(Normalized(name))

LookupNames == {"PET", "pet", " HDPE ", "PVC"}
\* fields a caller overwrites, and the values written (MPa)
WrittenFields == {"yield_strength", "tensile_strength"}
WrittenValues == 1..MaxP

CatalogInit ==
    /\ pc = "catalog"
    /\ geometry = VesselGeometry(40, 1)
    /\ material = MATERIALS.PET
    /\ config = [end_time |-> EndTime, max_step |-> 1,
                 failure_criterion |-> "yield", include_deformation |-> FALSE]
    /\ P_interp = NoInterp
    /\ T_interp = NoInterp
    /\ sol = NoSol
    /\ system_state = NoState
    /\ result = NoState
    /\ call = NoCall
    /\ combustion = NoSeries
    /\ plan = NoPlan
    /\ first = NoState
    /\ catalog = MATERIALS
    /\ held = {}
    /\ GuiIdle

\* a caller looks a material up and keeps the record
GetMaterial ==
    /\ pc = "catalog"
    /\ \E name \in LookupNames :
         /\ call' = [op |-> "get_material", name |-> name,
                     out |-> get_material(name)]
         /\ held' = IF get_material(name).raised THEN held
                    ELSE held \cup {KeyOf(name)}
    /\ UNCHANGED <<pc, geometry, material, config, P_interp, T_interp, sol,
                   system_state, result, combustion, plan, first, catalog,
                   gui>>

\* a caller assigns to a field of a record it holds: MaterialProperties is a
\* plain dataclass (not frozen) and the record is the dictionary's own
AssignField ==
    /\ pc = "catalog"
    /\ \E key \in held, field \in WrittenFields, v \in WrittenValues :
         catalog' = [catalog EXCEPT ![key][field] = v]
    /\ UNCHANGED <<pc, geometry, material, config, P_interp, T_interp, sol,
                   system_state, result, call, combustion, plan, first, held,
                   gui>>

CatalogNext == GetMaterial \/ AssignField

CatalogSpec == CatalogInit /\ [][CatalogNext]_vars

\* ------------------------------------------------ combustion stage
\* The two entry points that start from the mixture: run_full_simulation
\* (system_integrator.py) and run_complete_simulation (full_simulation.py),
\* which calls the former after a combustion run of its own.  The reactor
\* network is not part of the repository: what Cantera answers for valid
\* inputs is an input of the run, either a pressure history or an exception,
\* and the same for the two calls of one run (the simulation is
\* deterministic, NFR-4).  Volumes are in millilitres, mixture ratios in
\* tenths, temperatures in kelvin, pressures in pascal.

\* validate_combustion_inputs, cantera_wrapper.py lines 80-98
validate_combustion_inputs(volume, mix_ratio, T0, P0) ==
    IF volume <= 0 THEN FALSE
    ELSE IF volume > 10000 THEN FALSE
    ELSE IF mix_ratio <= 0 THEN FALSE
    ELSE IF mix_ratio < 5 \/ mix_ratio > 100 THEN FALSE
    ELSE IF T0 < 200 \/ T0 > 500 THEN FALSE
    ELSE IF P0 < 5000 \/ P0 > 500000 THEN FALSE
    ELSE TRUE

\* the CombustionResult of the two failure returns, lines 153-161 and 217-225
FailedCombustion ==
    [time |-> <<>>, pressure |-> <<>>, temperature |-> <<>>,
     success |-> FALSE]

\* simulate_combustion with the exception handler returning the histories
\* recorded so far
simulate_combustion_keeping_history(volume, mix_ratio, T0, P0, n_points, cantera) ==
    IF ~validate_combustion_inputs(volume, mix_ratio, T0, P0)
    THEN FailedCombustion
    ELSE IF cantera.raises \/ n_points < 2
    THEN [SeriesOf(cantera.history) EXCEPT !.success = FALSE]
    ELSE SeriesOf(cantera.history)

\* simulate_combustion, cantera_wrapper.py lines 100-225.  Inside the try
\* block an exception of the reactor, np.max of the zero samples of
\* n_points = 0 and times[1] of the single sample of n_points = 1 all end in
\* the handler of line 216, which returns the empty failed result.  The
\* history of a successful run is carried at the resolution of the ticks.
simulate_combustion(volume, mix_ratio, T0, P0, n_points, cantera) ==
    IF ~validate_combustion_inputs(volume, mix_ratio, T0, P0)
    THEN FailedCombustion
    ELSE IF cantera.raises \/ n_points < 2
    THEN FailedCombustion
    ELSE SeriesOf(cantera.history)

Mixtures ==
    {[volume |-> 1000, mix_ratio |-> 20, T0 |-> 300, P0 |-> 101325],
     [volume |-> 0, mix_ratio |-> 20, T0 |-> 300, P0 |-> 101325],
     [volume |-> 20000, mix_ratio |-> 20, T0 |-> 300, P0 |-> 101325],
     [volume |-> 1000, mix_ratio |-> 2, T0 |-> 300, P0 |-> 101325],
     [volume |-> 1000, mix_ratio |-> 20, T0 |-> 600, P0 |-> 101325],
     [volume |-> 1000, mix_ratio |-> 20, T0 |-> 300, P0 |-> 1000]}

CanteraAnswers ==
    [raises : BOOLEAN,
     history : {f \in RisingProfiles : f[0] = 0 /\ f[EndTime] >= 1}]

Invocations ==
    {[op |-> "run_full_simulation", verbose |-> FALSE, mixture |-> m,
      cantera |-> c] : m \in Mixtures, c \in CanteraAnswers}
    \cup {[op |-> "run_complete_simulation", verbose |-> v, mixture |-> m,
           cantera |-> c] :
              v \in BOOLEAN, m \in Mixtures, c \in CanteraAnswers}

\* the call of simulate_combustion both entry points make, with
\* n_points = int(combustion_time / max_step)
CombustionOfRun ==
    simulate_combustion(call.mixture.volume, call.mixture.mix_ratio,
                        call.mixture.T0, call.mixture.P0,
                        config.end_time \div config.max_step, call.cantera)

CombustionFrame ==
    UNCHANGED <<geometry, material, config, P_interp, T_interp, sol,
                system_state, result, call, plan, first, catalog, held, gui>>

\* run_complete_simulation, full_simulation.py lines 170-197: the combustion
\* run and, when verbose, the print of its peaks, where np.max of an empty
\* array raises ValueError
CompleteCombustion ==
    /\ pc = "called"
    /\ call.op = "run_complete_simulation"
    /\ \E combustion_result \in {CombustionOfRun} :
         /\ combustion' = combustion_result
         /\ pc' = IF call.verbose /\ Len(combustion_result.pressure) = 0
                  THEN "error"
                  ELSE "system"
    /\ CombustionFrame

\* run_full_simulation, system_integrator.py lines 94-123, entered directly
\* or from full_simulation.py line 219: the combustion run, the print of its
\* peaks on every call (np.max of an empty array raises ValueError), the
\* vessel and its theoretical burst pressure
SystemCombustion ==
    /\ \/ pc = "called" /\ call.op = "run_full_simulation"
       \/ pc = "system"
    /\ \E combustion_result \in {CombustionOfRun} :
         /\ combustion' = combustion_result
         /\ pc' = IF Len(combustion_result.pressure) = 0
                  THEN "error"
                  ELSE IF predict_failure_pressure(
                              geometry, material,
                              config.failure_criterion).raised
                  THEN "error"
                  ELSE "start"
    /\ CombustionFrame

\* run_full_simulation, lines 140-149: the prints of the peaks of the
\* system state and the return of the pair
ReturnSystem ==
    /\ pc = "tracker_done"
    /\ call.op = "run_full_simulation"
    /\ pc' = IF Len(system_state.samples) = 0 THEN "error" ELSE "returned"
    /\ UNCHANGED <<geometry, material, config, P_interp, T_interp, sol,
                   system_state, result, call, aside, gui>>

\* run_complete_simulation after the system simulation returned
CompleteOrchestrate ==
    /\ call.op = "run_complete_simulation"
    /\ Orchestrate

CombustionInit ==
    /\ geometry \in {VesselGeometry(40, 1), VesselGeometry(20, MaxT)}
    /\ material \in RunMaterials
    /\ config \in [end_time : {EndTime}, max_step : MaxSteps,
                   failure_criterion : {"yield"},
                   include_deformation : {FALSE}]
    /\ call \in Invocations
    /\ combustion = NoSeries
    /\ P_interp = NoInterp
    /\ T_interp = NoInterp
    /\ pc = "called"
    /\ sol = NoSol
    /\ system_state = NoState
    /\ result = NoState
    /\ plan = NoPlan
    /\ first = NoState
    /\ catalog = MATERIALS
    /\ held = {}
    /\ GuiIdle

CombustionNext ==
    \/ CompleteCombustion
    \/ SystemCombustion
    \/ Prepare
    \/ Begin
    \/ SolverStep
    \/ Collect
    \/ ReturnSystem
    \/ CompleteOrchestrate

CombustionSpec == CombustionInit /\ [][CombustionNext]_vars

\* ------------------------------------------------ desktop front end
\* gui/main_window.py, gui/widgets.py and gui/simulation_thread.py.  The
\* main thread runs the slots of MainWindow one at a time from its event
\* queue; each SimulationThread runs run() on a thread of its own.  The
\* signals of a SimulationThread are emitted on that thread and connected
\* to slots of the main thread, so they are queued.  A static QMessageBox
\* call opens an application-modal box and returns when it is closed: the
\* slot is split there, and no click reaches the run button meanwhile.
MaxRuns == 2

\* SimulationThread.__init__; at is the statement of run() the thread is
\* about to execute, emitted the signals it has emitted so far
SimulationThread(config_dict) ==
    [config_dict |-> config_dict, _is_cancelled |-> FALSE, at |-> "created",
     outcome |-> "none", emitted |-> <<>>]

\* ConfigurationWidget.get_config_dict: five keys, all fields of
\* FullSimulationConfig, so FullSimulationConfig(**config_dict) returns
get_config_dict ==
    {"volume", "fuel_oxidizer_ratio", "vessel_diameter", "vessel_thickness",
     "vessel_material"}

\* ConfigurationWidget.is_valid: the spin boxes keep their values in range
is_valid == TRUE

\* what run_complete_simulation does when the thread calls it
SimulationOutcomes == {"returned_safe", "returned_failed", "raised"}

\* variant: simulation_complete is emitted after the handler of the
\* exception too, as if it stood after the try statement
run_flow_complete_after_try(at, raised) ==
    IF raised THEN "except"
    ELSE CASE at = "run" -> "configure"
           [] at = "configure" -> "simulate"
           [] at = "simulate" -> "progress100"
           [] at = "progress100" -> "complete"
           [] at = "complete" -> "return"
           [] at = "except" -> "complete"
           [] at = "return" -> "finished"

\* control flow of SimulationThread.run: the statement after the one at
\* `at`; an exception raised inside the try leads to the handler
run_flow(at, raised) ==
    IF raised THEN "except"
    ELSE CASE at = "run" -> "configure"
           [] at = "configure" -> "simulate"
           [] at = "simulate" -> "progress100"
           [] at = "progress100" -> "complete"
           [] at = "complete" -> "return"
           [] at = "except" -> "return"
           [] at = "return" -> "finished"

GuiFrame ==
    UNCHANGED <<pc, geometry, material, config, P_interp, T_interp, sol,
                system_state, result, call, aside>>

\* signal.emit(...) on the thread id, then the next statement
Emit(id, signal) ==
    /\ threads' = [threads EXCEPT
                      ![id].emitted = Append(@, signal),
                      ![id].at = run_flow(threads[id].at, FALSE)]
    /\ events' = Append(events, [thread |-> id, signal |-> signal])
    /\ UNCHANGED window
    /\ GuiFrame

Progress(percentage) ==
    [name |-> "progress_updated", percentage |-> percentage]

\* lines 39-42
RunCreatingConfiguration ==
    \E id \in 1..Len(threads) :
        /\ threads[id].at = "run"
        /\ Emit(id, Progress(5))

\* lines 43-46
RunStarting ==
    \E id \in 1..Len(threads) :
        /\ threads[id].at = "configure"
        /\ threads[id].config_dict \subseteq get_config_dict
        /\ Emit(id, Progress(10))

\* line 53: run_complete_simulation returns a result or raises
RunSimulation ==
    \E id \in 1..Len(threads), outcome \in SimulationOutcomes :
        /\ threads[id].at = "simulate"
        /\ threads' = [threads EXCEPT
                          ![id].outcome = outcome,
                          ![id].at = run_flow("simulate", outcome = "raised")]
        /\ UNCHANGED <<window, events>>
        /\ GuiFrame

\* line 55
RunProgressComplete ==
    \E id \in 1..Len(threads) :
        /\ threads[id].at = "progress100"
        /\ Emit(id, Progress(100))

\* lines 57-58
RunEmitComplete ==
    \E id \in 1..Len(threads) :
        /\ threads[id].at = "complete"
        /\ Emit(id, [name |-> "simulation_complete",
                     result |-> [failed |->
                                    threads[id].outcome = "returned_failed"]])

\* lines 60-62
RunEmitFailed ==
    \E id \in 1..Len(threads) :
        /\ threads[id].at = "except"
        /\ Emit(id, [name |-> "simulation_failed"])

\* run() returns and the thread ends
RunReturn ==
    \E id \in 1..Len(threads) :
        /\ threads[id].at = "return"
        /\ threads' = [threads EXCEPT ![id].at = run_flow("return", FALSE)]
        /\ UNCHANGED <<window, events>>
        /\ GuiFrame

\* SimulationThread.cancel, lines 64-66
Cancel ==
    \E id \in 1..Len(threads) :
        /\ ~threads[id]._is_cancelled
        /\ threads' = [threads EXCEPT ![id]._is_cancelled = TRUE]
        /\ UNCHANGED <<window, events>>
        /\ GuiFrame

\* a click on the run button: run_requested, MainWindow._run_simulation
ClickRun ==
    /\ pc = "gui"
    /\ window.run_button
    /\ window.dialogs = 0
    /\ Len(threads) < MaxRuns
    /\ IF ~is_valid
       THEN /\ window' = [window EXCEPT !.dialogs = @ + 1]
            /\ UNCHANGED threads
       ELSE /\ window' = [window EXCEPT
                             !.run_button = FALSE,
                             !.simulation_thread = Some(Len(threads) + 1)]
            /\ threads' = Append(threads,
                                 [SimulationThread(get_config_dict)
                                     EXCEPT !.at = "run"])
    /\ UNCHANGED events
    /\ GuiFrame

\* MainWindow._on_progress_updated
OnProgressUpdated ==
    /\ events # <<>>
    /\ Head(events).signal.name = "progress_updated"
    /\ window' = [window EXCEPT
                     !.progress_bar = Head(events).signal.percentage]
    /\ events' = Tail(events)
    /\ UNCHANGED threads
    /\ GuiFrame

\* MainWindow._on_simulation_complete, up to its message box
OnSimulationComplete ==
    /\ events # <<>>
    /\ Head(events).signal.name = "simulation_complete"
    /\ window' = [window EXCEPT
                     !.current_result = Some(Head(events).signal.result),
                     !.run_button = TRUE,
                     !.dialogs = @ + 1]
    /\ events' = Tail(events)
    /\ UNCHANGED threads
    /\ GuiFrame

\* MainWindow._on_simulation_failed, up to its message box
OnSimulationFailed ==
    /\ events # <<>>
    /\ Head(events).signal.name = "simulation_failed"
    /\ window' = [window EXCEPT !.run_button = TRUE, !.dialogs = @ + 1]
    /\ events' = Tail(events)
    /\ UNCHANGED threads
    /\ GuiFrame

\* the user closes the message box and the slot that opened it returns
CloseMessageBox ==
    /\ window.dialogs > 0
    /\ window' = [window EXCEPT !.dialogs = @ - 1]
    /\ UNCHANGED <<threads, events>>
    /\ GuiFrame

GuiInit ==
    /\ pc = "gui"
    /\ geometry = VesselGeometry(40, 1)
    /\ material = MATERIALS.PET
    /\ config = [end_time |-> EndTime, max_step |-> 1,
                 failure_criterion |-> "yield", include_deformation |-> FALSE]
    /\ P_interp = NoInterp
    /\ T_interp = NoInterp
    /\ sol = NoSol
    /\ system_state = NoState
    /\ result = NoState
    /\ call = NoCall
    /\ combustion = NoSeries
    /\ plan = NoPlan
    /\ first = NoState
    /\ catalog = MATERIALS
    /\ held = {}
    /\ GuiIdle

GuiNext ==
    \/ ClickRun \/ Cancel \/ CloseMessageBox
    \/ RunCreatingConfiguration \/ RunStarting \/ RunSimulation
    \/ RunProgressComplete \/ RunEmitComplete \/ RunEmitFailed \/ RunReturn
    \/ OnProgressUpdated \/ OnSimulationComplete \/ OnSimulationFailed

GuiSpec == GuiInit /\ [][GuiNext]_vars

\* ------------------------------------------- direct calls of the library
\* Calls of the thin-wall and stress-concentration functions as the test
\* suites and the examples make them, outside a run.  geometry and material
\* are the arguments; call records the other arguments and the outcome.
Pressures == {RInt(p) : p \in 0..MaxP}
CallCriteria == {"yield", "ultimate", "Yield", "ULTIMATE", "max_strain"}
\* multiples of the predicted failure pressure: the tests apply 1 and 1.5
BurstMultiples == {One, Rat(11, 10), Rat(3, 2)}

PureInit ==
    /\ geometry \in Geometries
    /\ material \in Materials
    /\ config = [end_time |-> EndTime, max_step |-> 1,
                 failure_criterion |-> "yield", include_deformation |-> FALSE]
    /\ P_interp = [k \in Ticks |-> 0]
    /\ T_interp = TemperatureProfile
    /\ pc = "pure"
    /\ sol = NoSol
    /\ system_state = NoState
    /\ result = NoState
    /\ call = NoCall
    /\ combustion = NoSeries
    /\ plan = NoPlan
    /\ first = NoState
    /\ catalog = MATERIALS
    /\ held = {}
    /\ GuiIdle

\* a call returns (or raises) once
PureFrame ==
    /\ pc' = "returned"
    /\ UNCHANGED <<geometry, material, config, P_interp, T_interp, sol,
                   system_state, result, aside, gui>>

CallHoopStress ==
    /\ pc = "pure"
    /\ \E pressure \in Pressures :
         call' = [op |-> "calculate_hoop_stress", pressure |-> pressure,
                  out |-> calculate_hoop_stress(pressure, geometry)]
    /\ PureFrame

CallAxialStress ==
    /\ pc = "pure"
    /\ \E pressure \in Pressures :
         call' = [op |-> "calculate_axial_stress", pressure |-> pressure,
                  out |-> calculate_axial_stress(pressure, geometry)]
    /\ PureFrame

CallStressState ==
    /\ pc = "pure"
    /\ \E pressure \in Pressures :
         call' = [op |-> "calculate_stress_state", pressure |-> pressure,
                  out |-> calculate_stress_state(pressure, geometry)]
    /\ PureFrame

CallBurstPressure ==
    /\ pc = "pure"
    /\ \E use_yield \in BOOLEAN, safety_factor \in 1..2 :
         call' = [op |-> "calculate_burst_pressure", use_yield |-> use_yield,
                  safety_factor |-> safety_factor,
                  out |-> calculate_burst_pressure(geometry, material,
                                                   use_yield, safety_factor)]
    /\ PureFrame

CallSafetyFactor ==
    /\ pc = "pure"
    /\ \E pressure \in Pressures, criterion \in CallCriteria :
         call' = [op |-> "calculate_safety_factor", pressure |-> pressure,
                  criterion |-> criterion,
                  out |-> calculate_safety_factor(pressure, geometry, material,
                                                  criterion)]
    /\ PureFrame

CallCheckFailure ==
    /\ pc = "pure"
    /\ \E pressure \in Pressures, criterion \in CallCriteria :
         call' = [op |-> "check_failure", pressure |-> pressure,
                  criterion |-> criterion,
                  out |-> check_failure(pressure, geometry, material,
                                        criterion)]
    /\ PureFrame

CallPredictFailurePressure ==
    /\ pc = "pure"
    /\ \E criterion \in CallCriteria :
         call' = [op |-> "predict_failure_pressure", criterion |-> criterion,
                  out |-> predict_failure_pressure(geometry, material,
                                                   criterion)]
    /\ PureFrame

\* test_burst_calculator.py: the predicted failure pressure, then the safety
\* factor and check_failure at a multiple of it
CallCheckAtPredicted ==
    /\ pc = "pure"
    /\ \E criterion \in Criteria, multiple \in BurstMultiples :
       \E P_fail \in {predict_failure_pressure(geometry, material,
                                                criterion)} :
         call' = [op |-> "check_at_predicted", criterion |-> criterion,
                  multiple |-> multiple,
                  out |-> IF P_fail.raised THEN Raised
                          ELSE check_failure(RMul(P_fail.value, multiple),
                                             geometry, material, criterion)]
    /\ PureFrame

CallCompare ==
    /\ pc = "pure"
    /\ \E pressure \in Pressures :
         call' = [op |-> "compare_thick_vs_thin_wall", pressure |-> pressure,
                  out |-> compare_thick_vs_thin_wall(geometry, pressure,
                                                     material)]
    /\ PureFrame

CallMaximumStress ==
    /\ pc = "pure"
    /\ \E pressure \in Pressures, cap_type \in CapTypes,
          include_thread \in BOOLEAN, include_transition \in BOOLEAN :
         call' = [op |-> "calculate_maximum_stress", pressure |-> pressure,
                  cap_type |-> cap_type, include_thread |-> include_thread,
                  include_transition |-> include_transition,
                  out |-> calculate_maximum_stress(pressure, geometry,
                                                   material, cap_type,
                                                   include_thread,
                                                   include_transition)]
    /\ PureFrame

CallEndCapFactor ==
    /\ pc = "pure"
    /\ \E cap_type \in CapTypes :
         call' = [op |-> "calculate_end_cap_stress_factor",
                  cap_type |-> cap_type,
                  out |-> calculate_end_cap_stress_factor(geometry, cap_type)]
    /\ PureFrame

\* radii (mm) and sample counts of direct calls of the Lame solver
LameRadii == {rr \in (1..MaxR) \X (1..MaxR) : rr[1] < rr[2]}

CallSolveLame ==
    /\ pc = "pure"
    /\ \E rr \in LameRadii, P_i \in Pressures, P_o \in Pressures,
          n_points \in 2..MaxPoints :
         call' = [op |-> "solve_lame_equations",
                  inner_radius |-> RInt(rr[1]), outer_radius |-> RInt(rr[2]),
                  internal_pressure |-> P_i, external_pressure |-> P_o,
                  n_points |-> n_points,
                  out |-> Returned(solve_lame_equations(RInt(rr[1]),
                                                        RInt(rr[2]), P_i, P_o,
                                                        n_points), FALSE)]
    /\ PureFrame

\* thread depths and root radii (mm) of direct calls of the thread factor;
\* None takes the default of the code
ThreadDepths == {None, Some(Rat(1, 2)), Some(One)}
ThreadRadii ==
    {Zero, Rat(1, 100), Rat(1, 10), Rat(1, 4), Rat(1, 2), One, RInt(2)}

\* test_stress_concentrations.py, test_sharper_threads_higher_stress: the
\* factor of a sharp thread, then that of a rounder one of the same depth
CallThreadFactorPair ==
    /\ pc = "pure"
    /\ \E thread_depth \in ThreadDepths, r1 \in ThreadRadii,
          r2 \in ThreadRadii :
         /\ RLess(r1, r2)
         /\ call' = [op |-> "calculate_thread_stress_factor",
                     thread_depth |-> thread_depth,
                     sharp_radius |-> r1, round_radius |-> r2,
                     K_sharp |-> calculate_thread_stress_factor(
                                     geometry, thread_depth, Some(r1)),
                     K_round |-> calculate_thread_stress_factor(
                                     geometry, thread_depth, Some(r2))]
    /\ PureFrame

PureNext ==
    \/ CallHoopStress \/ CallAxialStress \/ CallStressState
    \/ CallBurstPressure \/ CallSafetyFactor \/ CallCheckFailure
    \/ CallPredictFailurePressure \/ CallCheckAtPredicted
    \/ CallCompare \/ CallMaximumStress \/ CallSolveLame
    \/ CallEndCapFactor \/ CallThreadFactorPair

PureSpec == PureInit /\ [][PureNext]_vars

\* =============================================== properties, direct calls
ThicknessRatio == Rat(geometry.wall_thickness, geometry.inner_diameter)
Called(op) == pc = "returned" /\ call.op = op
ThinWallOps == {"calculate_hoop_stress", "calculate_axial_stress",
                "calculate_stress_state", "calculate_burst_pressure",
                "calculate_safety_factor", "check_failure"}
KnownCriterion ==
    "criterion" \in DOMAIN call => Lower(call.criterion) \in {"yield", "ultimate"}

\* C3: calculate_maximum_stress returns K_total equal to the largest factor
\* of the enabled features (the end cap always, the thread and the neck
\* transition when included), a location that labels an enabled feature
\* whose factor is K_total, and sigma_max = K_total times the thin-wall hoop
\* stress P * D / (2 t) at the given pressure.
C3_MaximumStress ==
    (Called("calculate_maximum_stress") /\ ~call.out.raised) =>
        LET v == call.out.value
            enabled ==
                {<<"End cap",
                   calculate_end_cap_stress_factor(geometry,
                                                   call.cap_type).value>>}
                \cup (IF call.include_thread
                      THEN {<<"Thread root",
                              calculate_thread_stress_factor(geometry, None,
                                                             None)>>}
                      ELSE {})
                \cup (IF call.include_transition
                      THEN {<<"Neck transition",
                              calculate_transition_radius_factor(
                                  geometry.inner_diameter, 28, 5)>>}
                      ELSE {})
        IN /\ \A e \in enabled : ~RLess(v.K_total, e[2])
           /\ \E e \in enabled : e[1] = v.location /\ e[2] = v.K_total
           /\ v.sigma_max =
                  RMul(v.K_total,
                       RMul(call.pressure,
                            Rat(geometry.inner_diameter,
                                2 * geometry.wall_thickness)))

\* a call with both features included where the thread root governs and the
\* other two factors are above 1
C3_Witness ==
    /\ Called("calculate_maximum_stress")
    /\ ~call.out.raised
    /\ call.include_thread /\ call.include_transition
    /\ call.out.value.location = "Thread root"
    /\ RLess(One, call.out.value.K_cap)
    /\ RLess(One, call.out.value.K_transition[1])
    /\ RLess(Zero, call.out.value.sigma_max)

\* C7: each thin-wall operation, called with a known criterion, raises when
\* t/D > 0.10, returns with a warning when 0.05 < t/D <= 0.10, and returns
\* without a warning when t/D <= 0.05.
C7_ThinWallGate ==
    (pc = "returned" /\ call.op \in ThinWallOps /\ KnownCriterion) =>
        /\ RLess(Rat(1, 10), ThicknessRatio) => call.out = Raised
        /\ (RLess(Rat(5, 100), ThicknessRatio)
              /\ ~RLess(Rat(1, 10), ThicknessRatio))
             => (~call.out.raised /\ call.out.warned)
        /\ ~RLess(Rat(5, 100), ThicknessRatio)
             => (~call.out.raised /\ ~call.out.warned)

\* check_failure on a vessel whose ratio is exactly 0.10: it returns, warned
C7_Witness ==
    /\ Called("check_failure")
    /\ ThicknessRatio = Rat(1, 10)
    /\ ~call.out.raised
    /\ call.out.warned

\* C8: compare_thick_vs_thin_wall returns a report for every geometry, with
\* thin_wall_valid = (t/D < 0.10).
C8_CompareAlwaysReports ==
    Called("compare_thick_vs_thin_wall") =>
        /\ ~call.out.raised
        /\ call.out.value.thin_wall_valid = RLess(ThicknessRatio, Rat(1, 10))

\* C9: at the pressure predict_failure_pressure returns the safety factor is
\* 1, and check_failure reports failed at every higher pressure.
C9_PredictedIsThreshold ==
    (Called("check_at_predicted") /\ ~call.out.raised) =>
        /\ call.multiple = One => call.out.value.SF = Fin(One)
        /\ RLess(One, call.multiple) => call.out.value.failed

\* ================================================= properties, the run
Samples == system_state.samples
HasSeries == "samples" \in DOMAIN system_state
ThinHoop(P) ==
    RMul(P, Rat(geometry.inner_diameter, 2 * geometry.wall_thickness))

\* C1: the overall verdict of a completed run is true exactly when the
\* tracker reported a failure or yield_strength / sigma_max < 1, where
\* sigma_max is the concentration factor times the thin-wall hoop stress at
\* the peak pressure; the yield strength is used under either criterion.
C1_OverallVerdict ==
    pc = "done" =>
        LET sigma_max == result.summary.max_stress_with_concentration
        IN /\ sigma_max =
                  RMul(result.summary.stress_concentration_factor,
                       ThinHoop(result.summary.peak_pressure))
           /\ \A i \in 1..Len(Samples) :
                  ~RLess(result.summary.peak_pressure, Samples[i].pressure)
           /\ result.failed =
                  (system_state.failed
                   \/ RLess(RInt(material.yield_strength), sigma_max))

\* a run under the ultimate criterion whose tracker saw no failure and whose
\* adjusted stress lies between the yield and the ultimate strength: failed
C1_Witness ==
    /\ pc = "done"
    /\ config.failure_criterion = "ultimate"
    /\ ~system_state.failed
    /\ result.failed
    /\ RLess(result.summary.max_stress_with_concentration,
             RInt(material.tensile_strength))

\* C2: the safety margin of a completed run is the least of the safety
\* factors of the retained samples and yield_strength / sigma_max.
C2_SafetyMargin ==
    pc = "done" =>
        LET sigma_max == result.summary.max_stress_with_concentration
            conc == IF sigma_max = Zero THEN Inf
                    ELSE Fin(RDiv(RInt(material.yield_strength
                                       * material.yield_strength),
                                  RSq(sigma_max)))
            all == {Samples[i].safety_factor : i \in 1..Len(Samples)}
                   \cup {conc}
        IN /\ result.safety_margin \in all
           /\ \A x \in all : ~SFLess(x, result.safety_margin)

\* a completed run with a finite margin and some sample strictly above it
C2_Witness ==
    /\ pc = "done"
    /\ ~result.safety_margin.inf
    /\ \E i \in 1..Len(Samples) :
          SFLess(result.safety_margin, Samples[i].safety_factor)

\* C10: the hoop stress is twice the axial stress for every pressure on the
\* vessel of the run when it is a valid thin wall, and at every retained
\* sample of the series, the one at the failure time included.
C10_HoopTwiceAxial ==
    /\ ~validate_thin_wall_assumption(geometry).raised =>
          \A p \in 0..MaxP :
             calculate_hoop_stress(RInt(p), geometry).value =
                 RMul(RInt(2), calculate_axial_stress(RInt(p), geometry).value)
    /\ HasSeries =>
          \A i \in 1..Len(Samples) :
             Samples[i].hoop_stress = RMul(RInt(2), Samples[i].axial_stress)

\* a series that ends with the sample at the failure time, under load
C10_Witness ==
    /\ HasSeries
    /\ system_state.failed
    /\ Len(Samples) >= 2
    /\ Samples[Len(Samples)].time = system_state.failure_time[1]
    /\ RLess(Zero, Samples[Len(Samples)].axial_stress)

\* ============================================= properties, the tracker
\* the safety factor of the input series at tick k is below 1
Below(k) ==
    SFBelowOne(calculate_safety_factor(RInt(P_interp[k]), geometry, material,
                                       config.failure_criterion).value)
\* ticks at which the safety factor has just crossed 1 from above
Crossings == {k \in 1..config.end_time : ~Below(k - 1) /\ Below(k)}
FirstCrossing == CHOOSE k \in Crossings : \A j \in Crossings : k <= j
TimesOrdered ==
    \A i \in 1..(Len(Samples) - 1) : Samples[i].time <= Samples[i + 1].time

\* C4: a detected failure is returned with failure_time at the first
\* crossing of the series, the last retained sample at that time, no
\* retained sample after it, and sample times in non-decreasing order.
C4_FailureAtFirstCrossing ==
    (pc = "tracker_done" /\ system_state.failed) =>
        /\ system_state.failure_time = Some(FirstCrossing)
        /\ Samples[Len(Samples)].time = FirstCrossing
        /\ \A i \in 1..Len(Samples) : Samples[i].time <= FirstCrossing
        /\ TimesOrdered

\* ticks on the failed side of a zero of the event function
Zeros ==
    {k \in 0..config.end_time :
        /\ Below(k)
        /\ \/ (k > 0 /\ ~Below(k - 1))
           \/ (k < config.end_time /\ ~Below(k + 1))}

\* What holds of a detected failure: failure_time is at a zero of the event
\* function (not always the first, nor always a crossing from above), the
\* last retained sample is at that time, none is later, and the sample times
\* are in non-decreasing order.
FailureAtSomeZero ==
    (pc = "tracker_done" /\ system_state.failed) =>
        /\ system_state.failure_time[1] \in Zeros
        /\ Samples[Len(Samples)].time = system_state.failure_time[1]
        /\ \A i \in 1..Len(Samples) :
              Samples[i].time <= system_state.failure_time[1]
        /\ TimesOrdered

\* C5: a result with failed = false has no failure time, no failure mode and
\* no retained sample whose safety factor is below 1.
C5_NotFailedIsSafe ==
    (pc = "tracker_done" /\ ~system_state.failed) =>
        /\ system_state.failure_time = None
        /\ system_state.failure_mode = None
        /\ \A i \in 1..Len(Samples) : ~SFBelowOne(Samples[i].safety_factor)

\* C6: once the integrator has reported that it could not complete, neither
\* the tracker nor the complete run returns a result with failed = false.
C6_SolverFailureIsFatal ==
    sol.status = "failed" =>
        /\ ~(pc = "tracker_done" /\ ~system_state.failed)
        /\ ~(pc = "done" /\ ~result.failed)

\* C11: the radial stress of the Lame profile is -P_i at its first sample
\* (r = r_i) and -P_o at its last sample (r = r_o), for every sample count.
C11_LameBoundary ==
    Called("solve_lame_equations") =>
        LET v == call.out.value
        IN /\ Len(v.r) = call.n_points
           /\ v.r[1] = call.inner_radius
           /\ v.r[call.n_points] = call.outer_radius
           /\ v.sigma_r[1] = RNeg(call.internal_pressure)
           /\ v.sigma_r[call.n_points] = RNeg(call.external_pressure)

\* a profile with an interior sample under distinct non-zero pressures
C11_Witness ==
    /\ Called("solve_lame_equations")
    /\ call.n_points >= 3
    /\ RLess(Zero, call.external_pressure)
    /\ RLess(call.external_pressure, call.internal_pressure)
    /\ call.out.value.sigma_r[1] # call.out.value.sigma_r[2]

\* the texts "<criterion> exceeded" that name a configured criterion
ModeNames(criterion) ==
    IF criterion = "yield" THEN {"Yield exceeded", "yield exceeded"}
    ELSE {"Ultimate exceeded", "ultimate exceeded"}

\* C12: a reported failure carries a failure_mode that names the criterion
\* configured for the run ("<criterion> exceeded"); with no failure the
\* failure_mode is None.
C12_ModeNamesCriterion ==
    pc = "tracker_done" =>
        IF system_state.failed
        THEN \E name \in ModeNames(config.failure_criterion) :
                system_state.failure_mode = Some(name)
        ELSE system_state.failure_mode = None

\* C13: a lookup of a material returns the property values of the catalog
\* as defined, whatever callers did with the records of earlier lookups.
C13_LookupStable ==
    (call.op = "get_material" /\ ~call.out.raised) =>
        call.out.value = MATERIALS[KeyOf(call.name)]

\* the factors the claim lists
CapTable ==
    [hemispherical |-> Rat(1, 1), elliptical |-> Rat(3, 2),
     torispherical |-> Rat(9, 5), conical |-> Rat(3, 2), flat |-> Rat(5, 2)]

DueWarnings(flat) ==
    (IF RLess(Rat(5, 100), ThicknessRatio) THEN <<"thick_wall">> ELSE <<>>)
    \o (IF flat THEN <<"flat_cap">> ELSE <<>>)
    \o (IF result.include_threads THEN <<"threads">> ELSE <<>>)
    \o (IF SFLess(result.safety_margin, Fin(RInt(4)))
        THEN <<"low_margin">> ELSE <<>>)

\* C17: the warning list of a completed run has one entry for each of the
\* conditions that holds and none for one that does not, in the order
\* thickness ratio > 0.05, flat cap selected, threads included,
\* safety_margin < 2.0.
C17_WarningsPerCondition ==
    pc = "done" => result.warnings = DueWarnings(Lower(result.cap_type) = "flat")

\* the same with the flat cap counted only under the spelling "flat"
WarningsPerConditionAsSpelled ==
    pc = "done" => result.warnings = DueWarnings(result.cap_type = "flat")

StrictlyIncreasing(x) == \A i \in 1..(Len(x) - 1) : x[i] < x[i + 1]

\* C18: a series whose times are not strictly increasing is rejected with a
\* fatal error and no result; it is never reordered or otherwise corrected.
C18_RejectsUnorderedSeries ==
    (~StrictlyIncreasing(combustion.time) /\ pc # "start") =>
        /\ pc = "error"
        /\ P_interp = NoInterp
        /\ system_state = NoState

\* C19: a run past the end of the input series extrapolates and completes
\* without a fatal error, and reports a warning for the queries beyond the
\* series.
C19_ExtrapolationWarns ==
    (/\ StrictlyIncreasing(combustion.time)
     /\ Len(combustion.time) > 0
     /\ config.end_time > combustion.time[Len(combustion.time)]) =>
        /\ pc # "error"
        /\ pc = "tracker_done" => "extrapolation" \in system_state.warned

\* the part of C19 that holds: the run is never stopped by an error
ExtrapolationCompletes ==
    (/\ StrictlyIncreasing(combustion.time)
     /\ Len(combustion.time) > 0
     /\ config.end_time > combustion.time[Len(combustion.time)]) =>
        pc # "error"

\* the fields of a SystemState other than the volume series
OtherThanVolume(st) ==
    [samples |-> [i \in 1..Len(st.samples) |->
                     [f \in DOMAIN st.samples[i] \ {"volume"} |->
                         st.samples[i][f]]],
     failed |-> st.failed,
     failure_time |-> st.failure_time,
     failure_mode |-> st.failure_mode]

\* C20: two calls that differ only in include_deformation and in the vessel
\* length (a missing length included) end alike, and return the same time,
\* pressure, temperature, stresses, safety_factor, strain_hoop, failed,
\* failure_time and failure_mode; only the volume series may differ.
C20_VolumeNeverFeedsBack ==
    (first.set /\ pc \in {"tracker_done", "error"}) =>
        /\ pc = first.pc
        /\ pc = "tracker_done" =>
              OtherThanVolume(system_state)
                  = OtherThanVolume(first.system_state)

\* two completed calls with a failure whose volume series differ, one of
\* them without a vessel length
C20_Witness ==
    /\ first.set
    /\ pc = "tracker_done"
    /\ system_state.failed
    /\ first.geometry.length = None
    /\ geometry.length # None
    /\ config.include_deformation # first.config.include_deformation
    /\ \E i \in 1..Len(system_state.samples) :
          system_state.samples[i].volume
              # first.system_state.samples[i].volume

WeakBelowStrongSamePeak ==
    (first.set /\ first.pc = "done" /\ pc = "done"
      /\ ~RLess(first.result.summary.peak_pressure,
                result.summary.peak_pressure)) =>
        SFLess(first.result.safety_margin, result.safety_margin)

\* C21: a completed run whose verdict is failed, or whose safety_margin is
\* below 1.5, names a failure location (a non-empty string).
C21_LocationWhenAtRisk ==
    (pc = "done"
      /\ (result.failed \/ SFLess(result.safety_margin, Fin(Rat(9, 4))))) =>
        /\ result.failure_location # None
        /\ result.failure_location[1] # ""

\* the part that holds: a failed run names a location
FailedRunNamesLocation ==
    (pc = "done" /\ result.failed) =>
        /\ result.failure_location # None
        /\ result.failure_location[1] # ""

\* C22: whatever max_step is (max_step >= end_time included), the series
\* returned by simulate_system_dynamics is not empty, and when no failure is
\* detected its last retained sample is at end_time.
C22_SeriesCoversDomain ==
    pc = "tracker_done" =>
        /\ Len(Samples) > 0
        /\ ~system_state.failed => Samples[Len(Samples)].time = config.end_time

\* the same for the runs whose t_eval has at least two points
SeriesCoversDomainTwoPoints ==
    (pc = "tracker_done" /\ t_eval_len >= 2) =>
        /\ Len(Samples) > 0
        /\ ~system_state.failed => Samples[Len(Samples)].time = config.end_time

\* C23: for one thread depth and two root radii 0 <= r1 < r2, the thread
\* factor at r1 is at least the factor at r2.
C23_SharperNotLower ==
    Called("calculate_thread_stress_factor") =>
        ~RLess(call.K_sharp, call.K_round)

\* the same for positive radii 0 < r1 < r2
SharperNotLowerPositive ==
    (Called("calculate_thread_stress_factor")
      /\ RLess(Zero, call.sharp_radius)) =>
        ~RLess(call.K_sharp, call.K_round)

\* =========================================== properties, the front end
Terminal(th) ==
    SelectSeq(th.emitted,
              LAMBDA sig : sig.name \in {"simulation_complete",
                                         "simulation_failed"})
Emitted(th, name) == \E i \in 1..Len(th.emitted) : th.emitted[i].name = name
EmittedProgress(th, percentage) ==
    \E i \in 1..Len(th.emitted) : th.emitted[i] = Progress(percentage)

\* C24: a SimulationThread emits at most one terminal signal and, once run
\* has ended, exactly one: simulation_complete when the simulation returned,
\* simulation_failed when it raised; progress 100 is emitted only when the
\* simulation returned, and before simulation_complete.  This holds whether
\* and whenever cancel() was called.
C24_OneTerminalSignal ==
    \A id \in 1..Len(threads) :
        LET th == threads[id]
        IN /\ Len(Terminal(th)) <= 1
           /\ th.at \in {"return", "finished"} =>
                 /\ Len(Terminal(th)) = 1
                 /\ Terminal(th)[1].name =
                       IF th.outcome = "raised" THEN "simulation_failed"
                       ELSE "simulation_complete"
           /\ Emitted(th, "simulation_complete") =>
                 th.outcome \in {"returned_safe", "returned_failed"}
           /\ Emitted(th, "simulation_failed") => th.outcome = "raised"
           /\ EmittedProgress(th, 100) =>
                 th.outcome \in {"returned_safe", "returned_failed"}
           /\ Emitted(th, "simulation_complete") =>
                 /\ EmittedProgress(th, 100)
                 /\ \A i, j \in 1..Len(th.emitted) :
                       (th.emitted[i] = Progress(100)
                         /\ th.emitted[j].name = "simulation_complete")
                           => i < j

\* a thread cancelled before its simulation raised has ended with
\* simulation_failed, and another cancelled one with simulation_complete
C24_Witness ==
    /\ Len(threads) = 2
    /\ threads[1].at = "finished"
    /\ threads[1]._is_cancelled
    /\ threads[1].outcome = "raised"
    /\ Terminal(threads[1]) = <<[name |-> "simulation_failed"]>>
    /\ threads[2].at = "finished"
    /\ threads[2]._is_cancelled
    /\ Emitted(threads[2], "simulation_complete")

\* the thread has been started and run() has not returned
Executing(id) == threads[id].at \notin {"created", "finished"}
\* the terminal signal of the thread has been taken by its slot
TerminalHandled(id) ==
    /\ Terminal(threads[id]) # <<>>
    /\ \A i \in 1..Len(events) :
          events[i].thread = id =>
              events[i].signal.name = "progress_updated"

\* C30: with runs requested by the run button only, at most one
\* SimulationThread is executing at any time (so none is started while an
\* earlier one is still running), and the button is disabled from the start
\* of a run until the terminal signal of that run has been handled.
C30_OneThreadAtATime ==
    /\ Cardinality({id \in 1..Len(threads) : Executing(id)}) <= 1
    /\ \A id \in 1..Len(threads) :
          (id = Len(threads) /\ ~TerminalHandled(id)) => ~window.run_button

\* the part that holds: the button stays disabled until the terminal signal
\* of the run is handled, and at most one thread has yet to emit its
\* terminal signal
OneRunBeforeItsTerminalSignal ==
    /\ Cardinality({id \in 1..Len(threads) :
                       Terminal(threads[id]) = <<>>}) <= 1
    /\ \A id \in 1..Len(threads) :
          (id = Len(threads) /\ ~TerminalHandled(id)) => ~window.run_button

\* every retained sample of the run has a positive pressure
PositiveSeries ==
    \A i \in 1..Len(Samples) : RLess(Zero, Samples[i].pressure)

\* C25: in a completed run with positive series pressures and a material
\* whose tensile strength is at least its yield strength, the
\* concentration-adjusted safety factor is no greater than the dynamic
\* minimum safety factor, safety_margin equals the concentration-adjusted
\* factor, and failed is true exactly when that factor is below 1.
C25_ConcentrationGoverns ==
    (pc = "done" /\ PositiveSeries
      /\ material.tensile_strength >= material.yield_strength) =>
        LET conc == result.summary.safety_factor_with_concentration
        IN /\ ~SFLess(result.summary.min_safety_factor, conc)
           /\ result.safety_margin = conc
           /\ result.failed = SFBelowOne(conc)

\* a run under the ultimate criterion in which the tracker reported a
\* failure, and the adjusted factor is below 1 and below the dynamic minimum
C25_Witness ==
    /\ pc = "done"
    /\ PositiveSeries
    /\ config.failure_criterion = "ultimate"
    /\ system_state.failed
    /\ SFBelowOne(result.summary.safety_factor_with_concentration)
    /\ SFLess(result.summary.safety_factor_with_concentration,
              result.summary.min_safety_factor)
    /\ result.safety_margin = result.summary.safety_factor_with_concentration

\* C26: the location calculate_maximum_stress returns is "Thread root" only
\* when include_thread is set and "Neck transition" only when
\* include_transition is set, also when several factors tie for the maximum.
C26_LocationIsEnabled ==
    (Called("calculate_maximum_stress") /\ ~call.out.raised) =>
        /\ call.out.value.location \in
              {"End cap", "Thread root", "Neck transition"}
        /\ call.out.value.location = "Thread root" => call.include_thread
        /\ call.out.value.location = "Neck transition" =>
              call.include_transition

\* a call in which the three factors tie at 1.0 with both features disabled
C26_Witness ==
    /\ Called("calculate_maximum_stress")
    /\ ~call.out.raised
    /\ ~call.include_thread /\ ~call.include_transition
    /\ call.out.value.K_cap = One
    /\ call.out.value.K_total = One
    /\ call.out.value.location = "End cap"

ThreadRootLabel == "Thread root (thread stress concentration)"
RecognisedCaps == {c \in CapTypes : Lower(c) \in DOMAIN cap_factors}

\* C27: estimate_failure_location returns the thread-root label for every
\* recognised cap type and every pressure on the vessel of the run, and the
\* failure_location_predicted of a completed run is that label whether or
\* not include_threads is set.
C27_PredictedIsThreadRoot ==
    /\ \A cap_type \in RecognisedCaps, p \in 0..MaxP :
          LET out == estimate_failure_location(RInt(p), geometry, cap_type)
          IN ~out.raised /\ out.value = ThreadRootLabel
    /\ pc = "done" =>
          result.fem_analysis.failure_location_predicted = ThreadRootLabel

\* a completed run with a flat cap and no threads: the critical location is
\* the end cap and the predicted location the thread root
C27_Witness ==
    /\ pc = "done"
    /\ ~result.include_threads
    /\ result.cap_type = "flat"
    /\ result.fem_analysis.stress_concentrations.K_thread = None
    /\ result.fem_analysis.stress_concentrations.location = "End cap"
    /\ result.fem_analysis.failure_location_predicted = ThreadRootLabel

InSeq(x, seq) == \E i \in 1..Len(seq) : seq[i] = x

\* C29: a completed run whose end-cap factor is the flat-cap factor 2.5 has
\* the flat-cap warning in its warning list, under every spelling of the cap
\* type that the end-cap evaluator takes as flat.
C29_FlatFactorIsWarned ==
    (pc = "done"
      /\ result.fem_analysis.stress_concentrations.K_cap = Rat(25, 10)) =>
        InSeq("flat_cap", result.warnings)

\* ------------------------------------------- properties, the combustion stage
\* C28: once the combustion stage of run_full_simulation or of
\* run_complete_simulation, verbose or not, has reported failure, its three
\* series are empty and the run is either between its two combustion calls
\* or has ended with an error: no system state and no result is produced.
C28_FailedCombustionIsFatal ==
    (pc # "called" /\ ~combustion.success) =>
        /\ combustion = FailedCombustion
        /\ pc \in {"system", "error"}
        /\ pc = "system" =>
              call.op = "run_complete_simulation" /\ ~call.verbose
        /\ system_state = NoState
        /\ result = NoState

C28_Witness ==
    /\ call.op = "run_complete_simulation"
    /\ ~call.verbose
    /\ validate_combustion_inputs(call.mixture.volume, call.mixture.mix_ratio,
                                  call.mixture.T0, call.mixture.P0)
    /\ combustion = FailedCombustion
    /\ pc = "error"

====
